---- MODULE Spec2Model ----
(***************************************************************************)
(* State-machine model of the Pomodoro timer in src/app.js: the `state`    *)
(* object, the interval timers and localStorage of the browser, and one    *)
(* action per event handler.  Functions of app.js that change state are    *)
(* operators from a world record (state, timers, localStorage) to a world  *)
(* record, composed the way the code calls them.                           *)
(*                                                                         *)
(* Clock readings are whole seconds expressed in milliseconds, so that     *)
(* dt = (now - lastPerf) / 1000 is an integer.  performance.now() and      *)
(* Date.now() are read from the same clock, measured from page load.       *)
(***************************************************************************)
EXTENDS Integers, Sequences, FiniteSets, TLC

VARIABLES
  state,         \* the `state` object of app.js (lines 23-34)
  timers,        \* handles of the active setInterval(tick, 250) schedules
  localStorage,  \* the two keys of the browser's localStorage
  now,           \* the clock, in milliseconds
  idle,          \* history variable: the part of now - lastPerf, in ms, that
                 \* passed while the machine was paused
  overshoot,     \* history variable: the seconds by which the tick that has
                 \* just run overran the phase it completed (-remainingSec
                 \* on line 273); 0 after any other step
  logged         \* history variable: the entries tick has logged since the
                 \* page was loaded

vars == <<state, timers, localStorage, now, idle, overshoot, logged>>

\* ----- bounds of the model
MaxSteps == 3          \* the clock advances at most this many quanta
MaxCompletions == 1    \* phases completed since the page was loaded
MaxStoreSteps == 2     \* clock steps of a session loaded from a store at hand
MaxCapSteps == 1       \* clock steps of a session loaded with a full log

\* ----- values
Null == <<>>                       \* JS null; a present value v is <<v>>
Some(v) == <<v>>
Modes == {"focus", "short", "long"}
Quantum == 5 * 60 * 1000           \* the clock step: five minutes, in ms

defaults ==
  [theme |-> "dark", focusMin |-> 25, shortMin |-> 5, longMin |-> 15,
   goalSessions |-> 8, autoStart |-> FALSE]

HistoryCap == 200

\* ----- helpers
\* new Date(t).toISOString(): a non-empty string, truthy whatever t is
toISOString(t) == Some(t)

\* todayKey(): the calendar day of the clock reading
todayKey(t) == t \div 86400000

\* {...a, ...b}: the fields of b override those of a
Spread(a, b) ==
  [k \in (DOMAIN a) \cup (DOMAIN b) |-> IF k \in DOMAIN b THEN b[k] ELSE a[k]]

\* JSON.stringify / JSON.parse.  A stored text is a record of its syntax
\* ("object" for {...}, "array" for [...], "invalid" for a text that is not
\* JSON) and the value it denotes.  The syntax stands for the type of the
\* value, which JSON.stringify reads off the value and Array.isArray off the
\* parsed result.
JSONstringify(syntax, v) == [syntax |-> syntax, json |-> v]
JSONparse(text) == text.json
SyntaxError(text) == text.syntax = "invalid"     \* JSON.parse(text) throws
isArray(text) == text.syntax = "array"           \* Array.isArray(JSON.parse(text))
NotJSON == [syntax |-> "invalid", json |-> <<>>]

\* ----- storage
\* mutant: the spread is the wrong way round, the defaults override the store
loadSettingsDefaultsLast(ls) ==
  IF ls.settings = Null THEN defaults
  ELSE IF SyntaxError(ls.settings[1]) THEN defaults
  ELSE Spread(JSONparse(ls.settings[1]), defaults)

loadSettings(ls) ==
  IF ls.settings = Null THEN defaults
  ELSE IF SyntaxError(ls.settings[1]) THEN defaults            \* catch
  ELSE Spread(defaults, JSONparse(ls.settings[1]))

saveSettings(w) ==
  [w EXCEPT !.localStorage.settings =
                Some(JSONstringify("object", w.state.settings))]

loadHistory(ls) ==
  IF ls.history = Null THEN <<>>
  ELSE IF SyntaxError(ls.history[1]) THEN <<>>                 \* catch
  ELSE IF isArray(ls.history[1]) THEN JSONparse(ls.history[1])
  ELSE <<>>

saveHistory(w) ==
  [w EXCEPT !.localStorage.history =
                Some(JSONstringify("array", w.state.history))]

clearAll(w) ==
  [w EXCEPT !.localStorage = [settings |-> Null, history |-> Null]]

\* ----- mode durations
modeToMinutes(s, mode) ==
  IF mode = "focus" THEN s.settings.focusMin
  ELSE IF mode = "short" THEN s.settings.shortMin
  ELSE s.settings.longMin

\* ----- browser timers
Max(S) == CHOOSE x \in S : \A y \in S : y <= x
setInterval(ts) == Max(ts \cup {0}) + 1      \* the handle of a new schedule

\* ----- timer controls
\* mutant: the handle is forgotten but the schedule is not cancelled
pauseKeepsSchedule(w) ==
  [w EXCEPT !.state = [w.state EXCEPT !.running = FALSE, !.interval = Null]]

pause(w) ==
  LET s1 == [w.state EXCEPT !.running = FALSE]
  IN IF s1.interval # Null
     THEN [w EXCEPT !.state = [s1 EXCEPT !.interval = Null],
                    !.timers = w.timers \ {s1.interval[1]}]
     ELSE [w EXCEPT !.state = s1]

\* mutant: neither the running test nor the interval test guards the schedule
startAlwaysSchedules(w, t) ==
  LET s1 == [w.state EXCEPT !.running = TRUE]
      s2 == IF s1.phaseStartISO = Null
            THEN [s1 EXCEPT !.phaseStartISO = toISOString(t)]
            ELSE s1
      h  == setInterval(w.timers)
  IN [w EXCEPT !.state = [s2 EXCEPT !.interval = Some(h)],
               !.timers = w.timers \cup {h}]

\* mutant: the start of the phase is not stamped
startNoStamp(w, t) ==
  IF w.state.running THEN w
  ELSE
    LET s1 == [w.state EXCEPT !.running = TRUE]
        h  == setInterval(w.timers)
    IN IF s1.interval = Null
       THEN [w EXCEPT !.state = [s1 EXCEPT !.interval = Some(h)],
                      !.timers = w.timers \cup {h}]
       ELSE [w EXCEPT !.state = s1]

start(w, t) ==
  IF w.state.running THEN w
  ELSE
    LET s1 == [w.state EXCEPT !.running = TRUE]
        s2 == IF s1.phaseStartISO = Null
              THEN [s1 EXCEPT !.phaseStartISO = toISOString(t)]
              ELSE s1
        h  == setInterval(w.timers)
    IN IF s2.interval = Null
       THEN [w EXCEPT !.state = [s2 EXCEPT !.interval = Some(h)],
                      !.timers = w.timers \cup {h}]
       ELSE [w EXCEPT !.state = s2]

\* mutant: the keepMode test is inverted
resetTimerInverted(w, keepMode) ==
  LET w1 == pause(w)
      s1 == [w1.state EXCEPT !.lastPerf = Null, !.phaseStartISO = Null]
      s2 == IF keepMode THEN [s1 EXCEPT !.mode = "focus"] ELSE s1
      s3 == [s2 EXCEPT !.totalSec = modeToMinutes(s2, s2.mode) * 60]
  IN [w1 EXCEPT !.state = [s3 EXCEPT !.remainingSec = s3.totalSec]]

resetTimer(w, keepMode) ==
  LET w1 == pause(w)
      s1 == [w1.state EXCEPT !.lastPerf = Null, !.phaseStartISO = Null]
      s2 == IF ~keepMode THEN [s1 EXCEPT !.mode = "focus"] ELSE s1
      s3 == [s2 EXCEPT !.totalSec = modeToMinutes(s2, s2.mode) * 60]
      s4 == [s3 EXCEPT !.remainingSec = s3.totalSec]
  IN [w1 EXCEPT !.state = s4]

\* mutant: the timer is reset even while it runs
setModeAlwaysResets(w, mode) ==
  resetTimer([w EXCEPT !.state.mode = mode], TRUE)

setMode(w, mode) ==
  LET w1 == [w EXCEPT !.state.mode = mode]
  IN IF ~w1.state.running THEN resetTimer(w1, TRUE) ELSE w1

\* history.unshift(entry), then the cap of line 287
unshift(h, entry) == <<entry>> \o h
\* mutant: the cap drops the newest entry
truncateDropsNewest(h) ==
  IF Len(h) > HistoryCap THEN SubSeq(h, 2, Len(h)) ELSE h

truncate(h) == IF Len(h) > HistoryCap THEN SubSeq(h, 1, HistoryCap) ELSE h

\* mutant: a short break hands over to the long break
nextModeCycle(mode) ==
  IF mode = "focus" THEN "short" ELSE IF mode = "short" THEN "long" ELSE "focus"

\* the mode a completed phase hands over to (lines 293-295)
nextMode(mode) == IF mode = "focus" THEN "short" ELSE "focus"

\* the k-th value crypto.randomUUID() returns in a session: 36 characters,
\* a different value at every call; no code reads the value
randomUUID(k) == "1b9d6bcd-bbfd-4b2d-9b5d-ab8dfbbd4be" \o ToString(k)

\* the ids line 280 may give the k-th entry of a session, logged at clock
\* reading t: a random UUID where the browser has crypto.randomUUID,
\* String(Date.now()) where it has not
Ids(t, k) == {randomUUID(k), ToString(t)}

\* the History Entry of a completed phase (lines 275-286)
entryOf(s, t, id) ==
  LET endedISO   == toISOString(t)
      startedISO == IF s.phaseStartISO # Null THEN s.phaseStartISO
                    ELSE toISOString(t - s.totalSec * 1000)
  IN [id |-> id, day |-> todayKey(t), mode |-> s.mode, duration |-> s.totalSec,
      startedAt |-> startedISO, endedAt |-> endedISO]

\* mutant: the entry is put in the log but the log is not saved
logSessionUnsaved(w, t, id) ==
  [w EXCEPT !.state.history =
              truncate(unshift(w.state.history, entryOf(w.state, t, id)))]

\* "log it" (lines 279-288)
logSession(w, t, id) ==
  saveHistory([w EXCEPT !.state.history =
                 truncate(unshift(w.state.history, entryOf(w.state, t, id)))])

\* "always reset to new mode duration" (lines 297-301)
resetToNewMode(s, t) ==
  LET s1 == [s EXCEPT !.totalSec = modeToMinutes(s, s.mode) * 60]
  IN [s1 EXCEPT !.remainingSec = s1.totalSec,
                !.phaseStartISO = toISOString(t),
                !.lastPerf = Null]

\* mutants: the autoStart test is dropped, one way or the other
pauseNever(w) == w
pauseAlways(w) == pause(w)

\* lines 306-308
pauseUnlessAutoStart(w) ==
  IF ~w.state.settings.autoStart THEN pause(w) ELSE w

\* the completion branch of tick (lines 273-308)
complete(w, t, id) ==
  LET w1 == logSession(w, t, id)
      w2 == setMode(w1, nextMode(w1.state.mode))
      w3 == [w2 EXCEPT !.state = resetToNewMode(w2.state, t)]
  IN pauseUnlessAutoStart(w3)

\* mutant: a fixed decrement per tick instead of the measured time
elapsedFixed(s, t) == 1

\* mutant: lastPerf is moved to the clock before dt is taken, so dt is 0
elapsedNone(s, t) == 0

\* dt of line 268, in seconds
elapsed(s, t) == (t - s.lastPerf[1]) \div 1000

\* tick() at clock reading t; id is the id line 280 draws if the phase completes
tick(w, t, id) ==
  IF ~w.state.running THEN w
  ELSE
    LET s0 == w.state
        s1 == IF s0.lastPerf = Null THEN [s0 EXCEPT !.lastPerf = Some(t)] ELSE s0
        dt == elapsed(s1, t)
        s2 == [s1 EXCEPT !.lastPerf = Some(t), !.remainingSec = @ - dt]
    IN IF s2.remainingSec <= 0 THEN complete([w EXCEPT !.state = s2], t, id)
       ELSE [w EXCEPT !.state = s2]

\* ----- theme
toggleTheme(w) ==
  saveSettings([w EXCEPT !.state.settings.theme =
                           IF @ = "dark" THEN "light" ELSE "dark"])

\* ----- bottom cards
\* mutant: the mode of an entry is not looked at
tallyAnyMode(acc, item, t) ==
  IF item.day # t THEN acc
  ELSE [focusSessions |-> acc.focusSessions + 1,
        focusSeconds  |-> acc.focusSeconds + item.duration,
        lastFocus     |-> IF acc.lastFocus = Null THEN Some(item)
                          ELSE acc.lastFocus]

\* the body of the loop of updateBottom (lines 323-329)
tally(acc, item, t) ==
  IF item.day # t THEN acc
  ELSE IF item.mode = "focus"
       THEN [focusSessions |-> acc.focusSessions + 1,
             focusSeconds  |-> acc.focusSeconds + item.duration,
             lastFocus     |-> IF acc.lastFocus = Null THEN Some(item)
                               ELSE acc.lastFocus]
       ELSE acc

RECURSIVE forOf(_, _, _, _)
forOf(h, i, t, acc) ==
  IF i > Len(h) THEN acc ELSE forOf(h, i + 1, t, tally(acc, h[i], t))

\* updateBottom() at clock reading t: the totals the cards are written from
updateBottom(s, t) ==
  forOf(s.history, 1, todayKey(t),
        [focusSessions |-> 0, focusSeconds |-> 0, lastFocus |-> Null])

\* ----- settings UI
\* the value of an <input>: <<>> is the empty string, <<n>> the digits of n
clamp(v, a, b) == IF v < a THEN a ELSE IF v > b THEN b ELSE v
NumberOr(v, d) == IF v = <<>> THEN d ELSE v[1]      \* Number(v || d)

applySettingsFromUI(w, ui) ==
  LET st == [w.state.settings EXCEPT
               !.focusMin     = clamp(NumberOr(ui.focusInput, 25), 1, 120),
               !.shortMin     = clamp(NumberOr(ui.shortInput, 5), 1, 60),
               !.longMin      = clamp(NumberOr(ui.longInput, 15), 1, 90),
               !.goalSessions = clamp(NumberOr(ui.goalInput, 8), 1, 30),
               !.autoStart    = ui.autoStartToggle]
      w1 == saveSettings([w EXCEPT !.state.settings = st])
  IN IF ~w1.state.running THEN resetTimer(w1, TRUE) ELSE w1

\* the clearData click handler after the user confirmed
clearData(w) ==
  LET w1 == clearAll(w)
      w2 == [w1 EXCEPT !.state.settings = defaults, !.state.history = <<>>]
      w3 == saveHistory(saveSettings(w2))
      w4 == setMode(w3, "focus")
  IN resetTimer(w4, FALSE)

\* init() (lines 498-518, called on line 520)
init(w) == resetTimer(setMode(w, "focus"), TRUE)

\* ----- the initial state
\* the object literal of lines 23-34
state0(ls) ==
  [mode |-> "focus", running |-> FALSE, totalSec |-> 25 * 60,
   remainingSec |-> 25 * 60, lastPerf |-> Null, interval |-> Null,
   phaseStartISO |-> Null,
   settings |-> loadSettings(ls), history |-> loadHistory(ls)]

\* settings records an earlier session saved
SavedSettings ==
  { [defaults EXCEPT !.focusMin = 10, !.autoStart = TRUE] }

InitialStores ==
  { [settings |-> Null, history |-> Null] } \cup
  { [settings |-> Some(JSONstringify("object", s)), history |-> Null] : s \in SavedSettings }

\* the inputs of the settings dialog
UIInputs ==
  { [focusInput |-> <<10>>, shortInput |-> <<>>, longInput |-> <<>>,
     goalInput |-> <<>>, autoStartToggle |-> FALSE],
    [focusInput |-> <<10>>, shortInput |-> <<10>>, longInput |-> <<15>>,
     goalInput |-> <<8>>, autoStartToggle |-> TRUE] }

World == [state |-> state, timers |-> timers, localStorage |-> localStorage]

Commit(w) ==
  /\ state' = w.state
  /\ timers' = w.timers
  /\ localStorage' = w.localStorage
  /\ idle' = IF w.state.lastPerf = state.lastPerf THEN idle ELSE 0

Init ==
  /\ \E ls \in InitialStores :
       LET w == init([state |-> state0(ls), timers |-> {}, localStorage |-> ls])
       IN /\ state = w.state
          /\ timers = w.timers
          /\ localStorage = w.localStorage
  /\ now = 0
  /\ idle = 0
  /\ overshoot = 0
  /\ logged = 0

\* ----- actions
\* dt of the next tick: 0 when lastPerf is null (line 267)
dtNow == IF state.lastPerf = Null THEN 0 ELSE elapsed(state, now)

\* the next tick would complete the phase (line 273)
Completes ==
  /\ state.running
  /\ state.remainingSec - dtNow <= 0

\* time passes
Advance ==
  /\ now + Quantum <= MaxSteps * Quantum
  /\ now' = now + Quantum
  /\ idle' = IF ~state.running /\ state.lastPerf # Null THEN idle + Quantum ELSE idle
  /\ overshoot' = 0
  /\ UNCHANGED <<state, timers, localStorage, logged>>

\* time passes in a session loaded from a store at hand
AdvanceStore ==
  /\ now < MaxStoreSteps * Quantum
  /\ Advance

\* the start/pause button (lines 468-471)
StartPauseClick ==
  /\ IF state.running THEN Commit(pause(World))
                      ELSE Commit(start(World, now))
  /\ overshoot' = 0
  /\ UNCHANGED <<now, logged>>

\* the reset button (line 474)
ResetClick ==
  /\ Commit(resetTimer(World, TRUE))
  /\ overshoot' = 0
  /\ UNCHANGED <<now, logged>>

\* a tab (lines 460-465)
TabClick ==
  \E m \in Modes :
    /\ Commit(setMode(World, m))
    /\ overshoot' = 0
    /\ UNCHANGED <<now, logged>>

\* a settings input changed, or the settings dialog was closed
SettingsChange ==
  \E ui \in UIInputs :
    /\ Commit(applySettingsFromUI(World, ui))
    /\ overshoot' = 0
    /\ UNCHANGED <<now, logged>>

\* the clear button, confirmed
ClearDataClick ==
  /\ Commit(clearData(World))
  /\ overshoot' = 0
  /\ UNCHANGED <<now, logged>>

\* the theme entry of the menu (lines 432-435)
ThemeClick ==
  /\ Commit(toggleTheme(World))
  /\ overshoot' = 0
  /\ UNCHANGED <<now, logged>>

\* a scheduled interval fires; at most n phases complete in a session
TickUpTo(n) ==
  /\ timers # {}
  /\ Completes => logged < n
  /\ \E id \in Ids(now, logged + 1) : Commit(tick(World, now, id))
  /\ overshoot' = IF Completes THEN dtNow - state.remainingSec ELSE 0
  /\ logged' = IF Completes THEN logged + 1 ELSE logged
  /\ UNCHANGED now

Tick == TickUpTo(MaxCompletions)

Next ==
  \/ Advance
  \/ StartPauseClick
  \/ ResetClick
  \/ TabClick
  \/ SettingsChange
  \/ ClearDataClick
  \/ ThemeClick
  \/ Tick

Spec == Init /\ [][Next]_vars

\* ----- a session that starts from a log earlier sessions filled
\* the log after n completions of earlier sessions, newest first, one every
\* five minutes up to the loading of the page; their ids are of the
\* String(Date.now()) kind
Prefill(n) ==
  [i \in 1..n |->
     [id |-> ToString(-i * Quantum), day |-> -1,
      mode |-> IF i % 2 = 0 THEN "focus" ELSE "short",
      duration |-> IF i % 2 = 0 THEN 1500 ELSE 300,
      startedAt |-> Some(-(i + 1) * Quantum), endedAt |-> Some(-i * Quantum)]]

\* the settings record the earlier sessions saved
SettingsAtCap ==
  { [defaults EXCEPT !.focusMin = 5, !.shortMin = 10, !.longMin = 5,
                     !.autoStart = TRUE] }

StoresAtCap ==
  { [settings |-> st, history |-> Some(JSONstringify("array", Prefill(n)))] :
      st \in {Some(JSONstringify("object", s)) : s \in SettingsAtCap},
      n \in {HistoryCap - 1, HistoryCap} }

InitCap ==
  /\ \E ls \in StoresAtCap :
       LET w == init([state |-> state0(ls), timers |-> {}, localStorage |-> ls])
       IN /\ state = w.state
          /\ timers = w.timers
          /\ localStorage = w.localStorage
  /\ now = 0
  /\ idle = 0
  /\ overshoot = 0
  /\ logged = 0

\* time passes in such a session
AdvanceCap ==
  /\ now < MaxCapSteps * Quantum
  /\ Advance

NextCap ==
  \/ AdvanceCap
  \/ StartPauseClick
  \/ ResetClick
  \/ TabClick
  \/ SettingsChange
  \/ ClearDataClick
  \/ ThemeClick
  \/ Tick

SpecCap == InitCap /\ [][NextCap]_vars

\* ----- a session that starts from whatever the store holds
Day == 24 * 60 * 60 * 1000

\* the entry an earlier session logged for a phase that ended at clock
\* reading t (before this page was loaded, so t < 0)
Logged(mode, minutes, t) ==
  [id |-> ToString(t), day |-> todayKey(t), mode |-> mode, duration |-> minutes * 60,
   startedAt |-> toISOString(t - minutes * 60 * 1000), endedAt |-> toISOString(t)]

\* logs of earlier days, newest entry first
LogA ==
  << Logged("short", 5, -Day + 12 * Quantum),
     Logged("focus", 10, -Day + 11 * Quantum),
     Logged("focus", 25, -Day - 2 * Quantum),
     Logged("long", 15, -Day + 4 * Quantum),
     Logged("focus", 25, -Day + Quantum) >>

LogB ==
  << Logged("focus", 25, -Day - 2 * Quantum),
     Logged("short", 5, -Day - 7 * Quantum) >>

\* what the two keys may hold when the page is loaded: nothing, a text that
\* is not JSON, a record with some of the fields, a record an earlier session
\* saved, a record with values outside the ranges of the settings dialog; no
\* log, a text that is not JSON, a JSON object, a log
Stores ==
  << [settings |-> Null, history |-> Null],
     [settings |-> Some(NotJSON), history |-> Some(NotJSON)],
     [settings |-> Some(JSONstringify("object", [focusMin |-> 10])),
      history  |-> Some(JSONstringify("object", [focusMin |-> 10]))],
     [settings |-> Some(JSONstringify("object",
                                      [theme |-> "light", autoStart |-> TRUE])),
      history  |-> Some(JSONstringify("array", LogA))],
     [settings |-> Some(JSONstringify("object",
                     [defaults EXCEPT !.focusMin = 10, !.autoStart = TRUE])),
      history  |-> Some(JSONstringify("array", LogB))],
     [settings |-> Some(JSONstringify("object",
                                      [focusMin |-> 500, goalSessions |-> 0])),
      history  |-> Some(JSONstringify("array", <<>>))] >>

InitStore ==
  /\ \E i \in DOMAIN Stores :
       LET ls == Stores[i]
           w  == init([state |-> state0(ls), timers |-> {}, localStorage |-> ls])
       IN /\ state = w.state
          /\ timers = w.timers
          /\ localStorage = w.localStorage
  /\ now = 0
  /\ idle = 0
  /\ overshoot = 0
  /\ logged = 0

NextStore ==
  \/ AdvanceStore
  \/ StartPauseClick
  \/ ResetClick
  \/ TabClick
  \/ SettingsChange
  \/ ClearDataClick
  \/ ThemeClick
  \/ Tick

SpecStore == InitStore /\ [][NextStore]_vars

\* ----- a session that starts from stored minute values of zero or less
\* (loadSettings does not clamp them)
StoresBelowRange ==
  { [settings |-> Some(JSONstringify("object", [focusMin |-> 0])),
     history  |-> Null],
    [settings |-> Some(JSONstringify("object",
                                     [focusMin |-> -5, shortMin |-> 0])),
     history  |-> Null] }

InitBelowRange ==
  /\ \E ls \in StoresBelowRange :
       LET w == init([state |-> state0(ls), timers |-> {}, localStorage |-> ls])
       IN /\ state = w.state
          /\ timers = w.timers
          /\ localStorage = w.localStorage
  /\ now = 0
  /\ idle = 0
  /\ overshoot = 0
  /\ logged = 0

SpecBelowRange == InitBelowRange /\ [][NextStore]_vars

\* ----- a session in which the settings are left alone
NextFixed ==
  \/ Advance
  \/ StartPauseClick
  \/ ResetClick
  \/ TabClick
  \/ Tick

SpecFixed == Init /\ [][NextFixed]_vars

\* ----- a session in which the user acts only on a paused machine, the
\* interval keeps firing while it is scheduled and time keeps passing
MaxLiveCompletions == 2

TickLive == TickUpTo(MaxLiveCompletions)

\* the user sets the machine up, or starts it
PausedClick ==
  /\ ~state.running
  /\ (StartPauseClick \/ TabClick)

NextLive ==
  \/ Advance
  \/ PausedClick
  \/ TickLive

SpecLive ==
  Init /\ [][NextLive]_vars /\ WF_vars(TickLive) /\ WF_vars(Advance)

\* ----- what the claims speak of
\* the mode that follows a completed phase
Successor(m) == [focus |-> "short", short |-> "focus", long |-> "focus"][m]

\* the configured duration of a mode, in seconds
ConfiguredSec(st, m) ==
  60 * (CASE m = "focus" -> st.focusMin
          [] m = "short" -> st.shortMin
          [] m = "long"  -> st.longMin)

\* the time measured since the last tick uses up the rest of the phase
Due ==
  /\ state.running
  /\ state.remainingSec * 1000
       <= IF state.lastPerf = Null THEN 0 ELSE now - state.lastPerf[1]

\* the state is the one a completion at the current clock reading left
JustCompleted ==
  /\ state.history # <<>>
  /\ Head(state.history).endedAt = Some(now)
  /\ state.phaseStartISO = Some(now)
  /\ state.lastPerf = Null
  /\ state.mode = Successor(Head(state.history).mode)

\* C1: with autoStart off, the completing tick appends exactly one entry with
\* the mode and the totalSec of the completed phase, and leaves the machine
\* paused, with no interval scheduled, in the next mode at its full configured
\* duration.
C1_CompletionLogsAndPauses ==
  [][ (Due /\ ~state.settings.autoStart /\ Tick) =>
        /\ Len(state'.history) = Len(state.history) + 1
        /\ Tail(state'.history) = state.history
        /\ Head(state'.history).mode = state.mode
        /\ Head(state'.history).duration = state.totalSec
        /\ ~state'.running
        /\ state'.interval = Null
        /\ timers' = {}
        /\ state'.mode = Successor(state.mode)
        /\ state'.remainingSec = ConfiguredSec(state'.settings, state'.mode) ]_vars

\* the scenario of the defaults with the focus time set to ten minutes: 600 s
\* of focus, then a paused short break
C1_Witness ==
  /\ JustCompleted
  /\ state.settings = [defaults EXCEPT !.focusMin = 10]
  /\ \E id \in Ids(now, logged) :
       state.history = <<[id |-> id, day |-> 0, mode |-> "focus",
                          duration |-> 600,
                          startedAt |-> Some(0), endedAt |-> Some(600000)]>>
  /\ overshoot = 0
  /\ state.mode = "short"
  /\ ~state.running
  /\ timers = {}
  /\ state.remainingSec = 300

\* C2: a completion moves focus to short, short to focus and long to focus,
\* whatever else the state holds; the mode becomes long only by setMode("long").
C2_ModeAdvance ==
  [][ /\ (Due /\ Tick) => state'.mode = Successor(state.mode)
      /\ (state.mode # "long" /\ state'.mode = "long")
            => state' = setMode(World, "long").state ]_vars

\* a long break has completed and handed over to focus
C2_Witness ==
  /\ JustCompleted
  /\ Head(state.history).mode = "long"
  /\ state.mode = "focus"

\* C3: with autoStart on, the completing tick leaves the machine running with
\* its interval scheduled and the next phase at its full duration; the first
\* tick of that phase subtracts no time from before the completion, and the
\* ticks after it count the phase down by the measured time.
C3_AutoStartContinues ==
  [][ /\ (Due /\ state.settings.autoStart /\ Tick) =>
            /\ state'.running
            /\ state'.interval # Null
            /\ timers' = {state'.interval[1]}
            /\ state'.totalSec = ConfiguredSec(state'.settings, state'.mode)
            /\ state'.remainingSec = state'.totalSec
      /\ (state.running /\ state.history # <<>>
               /\ state.phaseStartISO = Head(state.history).endedAt
               /\ state.remainingSec = state.totalSec /\ Tick) =>
            /\ state'.history # state.history
                 => state.remainingSec * 1000 <= now - state.phaseStartISO[1]
            /\ state'.history = state.history
                 => state'.remainingSec * 1000
                      >= state.remainingSec * 1000 - (now - state.phaseStartISO[1])
      /\ (state.running /\ state.history # <<>>
               /\ state.phaseStartISO = Head(state.history).endedAt
               /\ state.lastPerf # Null /\ idle = 0 /\ ~Due /\ Tick) =>
            state'.remainingSec * 1000
              = state.remainingSec * 1000 - (now - state.lastPerf[1]) ]_vars

\* the break that followed a completed focus phase is counting down
C3_Witness ==
  /\ state.settings.autoStart
  /\ state.running
  /\ timers # {}
  /\ state.history # <<>>
  /\ Head(state.history).mode = "focus"
  /\ state.mode = "short"
  /\ state.phaseStartISO = Head(state.history).endedAt
  /\ idle = 0
  /\ state.lastPerf = Some(now)
  /\ state.totalSec = ConfiguredSec(state.settings, "short")
  /\ state.remainingSec < state.totalSec

\* C4: a tick completes the phase when the measured time uses up the rest of
\* it, by whatever margin, and then appends one entry, advances the mode once
\* and reports the next phase's full duration; otherwise it appends nothing and
\* leaves the mode alone. The duration reported is a positive one. Violated
\* in SpecBelowRange, where the store held a minute value of zero or less when
\* the page was loaded (C14): the phase reported after the completion lasts
\* 0 s.
C4_OneCompletionPerTick ==
  [][ /\ (Due /\ Tick) =>
            /\ Len(state'.history) = Len(state.history) + 1
            /\ Tail(state'.history) = state.history
            /\ state'.mode = Successor(state.mode)
            /\ state'.remainingSec = ConfiguredSec(state'.settings, state'.mode)
            /\ state'.remainingSec > 0
      /\ (~Due /\ Tick) =>
            /\ state'.history = state.history
            /\ state'.mode = state.mode ]_vars

\* C5: between operations, 0 <= remainingSec <= totalSec. Violated in
\* SpecBelowRange, where the store held a minute value below zero when the
\* page was loaded (C14): remainingSec = totalSec = -300.
C5_RemainingWithinPhase ==
  /\ 0 <= state.remainingSec
  /\ state.remainingSec <= state.totalSec

\* C6: a tick subtracts only the time that passed while the machine was
\* running: of the time since the last tick, the part spent paused is left out,
\* and a phase that running time has not used up does not complete.
C6_PausedTimeNotSubtracted ==
  [][ (state.running /\ state.lastPerf # Null
         /\ state.remainingSec * 1000 > now - state.lastPerf[1] - idle /\ Tick) =>
        /\ state'.history = state.history
        /\ state'.remainingSec * 1000
             = state.remainingSec * 1000 - (now - state.lastPerf[1] - idle) ]_vars

\* C7: within a run (running before and after the step, no completion and no
\* reset) remainingSec goes down by exactly the time between the clock readings
\* of the ticks, and a tick's reading is the current clock.
C7_DriftCorrected ==
  [][ (state.running /\ state'.running /\ state'.history = state.history
         /\ state.lastPerf # Null /\ state'.lastPerf # Null) =>
        /\ (state.remainingSec - state'.remainingSec) * 1000
             = state'.lastPerf[1] - state.lastPerf[1]
        /\ state'.lastPerf # Some(now) => ~Tick ]_vars

\* a run of ticks, one of them after two clock steps, has counted down exactly
\* the time since the phase began
C7_Witness ==
  /\ state.running
  /\ idle = 0
  /\ state.phaseStartISO # Null
  /\ state.lastPerf = Some(now)
  /\ now - state.phaseStartISO[1] >= 3 * Quantum
  /\ (state.totalSec - state.remainingSec) * 1000 = now - state.phaseStartISO[1]

\* C8: the log never holds more than 200 entries; a completion puts its entry
\* at index 0, keeps the others in order behind it, and at the cap drops the
\* last (oldest) one and no other.
C8_HistoryCapped ==
  [][ /\ Len(state'.history) <= 200
      /\ (Due /\ Tick) =>
            LET h == state.history
                g == state'.history
            IN /\ Len(g) = IF Len(h) < 200 THEN Len(h) + 1 ELSE 200
               /\ g[1].id \in Ids(now, logged')
               /\ g[1].endedAt = Some(now)
               /\ g[1].mode = state.mode
               /\ \A i \in 2..Len(g) : g[i] = h[i - 1] ]_vars

\* a completion at the cap: the log of 200 has lost its oldest entry (the
\* 200th of the earlier sessions) to the new one
C8_Witness ==
  /\ Len(state.history) = 200
  /\ logged = 1
  /\ state.history[1].id \in Ids(now, logged)
  /\ state.history[2] = Prefill(200)[1]
  /\ state.history[200] = Prefill(200)[199]
  /\ localStorage.history = Some(JSONstringify("array", state.history))

\* C9: from any state, reset(keepMode) leaves the machine paused with no
\* interval scheduled, phaseStartISO cleared, and remainingSec = totalSec = the
\* configured minutes of the resulting mode * 60; the resulting mode is the
\* current one if keepMode, focus otherwise.
C9_ResetRewinds ==
  \A k \in BOOLEAN :
    LET r == resetTimer(World, k)
        m == IF k THEN state.mode ELSE "focus"
    IN /\ ~r.state.running
       /\ r.state.interval = Null
       /\ r.timers = {}
       /\ r.state.phaseStartISO = Null
       /\ r.state.mode = m
       /\ r.state.totalSec = ConfiguredSec(state.settings, m)
       /\ r.state.remainingSec = ConfiguredSec(state.settings, m)

\* a long break that had been started is back at its full 15 minutes
C9_Witness ==
  /\ now > 0
  /\ state.history # <<>>
  /\ state.mode = "long"
  /\ ~state.running
  /\ timers = {}
  /\ state.phaseStartISO = Null
  /\ state.lastPerf = Null
  /\ state.totalSec = 900
  /\ state.remainingSec = 900

\* C10: setMode(m) on a paused machine sets the mode and rewinds the timer to
\* m's configured duration with phaseStartISO cleared; on a running machine it
\* changes the mode and nothing else.
C10_SetModeFrame ==
  \A m \in Modes :
    LET r == setMode(World, m)
    IN IF ~state.running
       THEN /\ r.state.mode = m
            /\ r.state.totalSec = ConfiguredSec(state.settings, m)
            /\ r.state.remainingSec = ConfiguredSec(state.settings, m)
            /\ r.state.phaseStartISO = Null
       ELSE /\ r.state = [state EXCEPT !.mode = m]
            /\ r.timers = timers

\* the mode was changed to long while a focus phase was counting down
C10_Witness ==
  /\ state.running
  /\ timers # {}
  /\ state.mode = "long"
  /\ state.totalSec = ConfiguredSec(state.settings, "focus")
  /\ state.totalSec # ConfiguredSec(state.settings, "long")
  /\ state.phaseStartISO # Null
  /\ 0 < state.remainingSec
  /\ state.remainingSec < state.totalSec

\* C11: at most one tick schedule exists, and one exists exactly when running
\* is true; the handle the state holds is that schedule; start() on a running
\* machine schedules nothing, and pause() and resetTimer() leave none scheduled.
C11_OneSchedule ==
  /\ Cardinality(timers) <= 1
  /\ (timers # {}) <=> state.running
  /\ timers = IF state.interval = Null THEN {} ELSE {state.interval[1]}
  /\ state.running => start(World, now).timers = timers
  /\ pause(World).timers = {}
  /\ \A k \in BOOLEAN : resetTimer(World, k).timers = {}

\* the machine was paused in mid-phase and runs again, on one schedule
C11_Witness ==
  /\ state.running
  /\ idle > 0
  /\ state.interval # Null
  /\ timers = {state.interval[1]}

\* C12: pause() after pause() changes nothing, and start() after start()
\* changes nothing, whenever the second call comes: mode, running, totalSec,
\* remainingSec, phaseStartISO, the interval and everything else are as the
\* first call left them.
C12_Idempotent ==
  /\ pause(pause(World)) = pause(World)
  /\ \A t \in {now, now + Quantum} :
        start(start(World, now), t) = start(World, now)

\* a machine started earlier is running: a second start() at the current
\* clock reading would find a phase stamped in the past and one schedule
C12_Witness ==
  /\ state.running
  /\ state.phaseStartISO # Null
  /\ state.phaseStartISO[1] < now
  /\ 0 < state.remainingSec
  /\ state.remainingSec < state.totalSec
  /\ Cardinality(timers) = 1
  /\ start(World, now) = World

\* C13: phaseStartISO is the time at which the countdown of the current phase
\* began counting: when a phase that a completion entered with autoStart off
\* is started by start(), phaseStartISO (the startedAt of the entry the phase
\* will log) is the time of that start().
C13_StartedAtIsStartTime ==
  [][ (~state.running /\ state.lastPerf = Null /\ state.history # <<>>
         /\ state.phaseStartISO = Head(state.history).endedAt
         /\ state.remainingSec = state.totalSec
         /\ StartPauseClick) =>
        state'.phaseStartISO = Some(now) ]_vars

\* C14: in every reachable state the numeric settings are within the ranges of
\* the settings dialog (focus 1..120, short 1..60, long 1..90, goal 1..30),
\* whatever the store held when the page was loaded and whatever was entered
\* afterwards.
C14_SettingsClamped ==
  /\ state.settings.focusMin \in 1..120
  /\ state.settings.shortMin \in 1..60
  /\ state.settings.longMin \in 1..90
  /\ state.settings.goalSessions \in 1..30

\* C15: loading never fails.  Whatever the store holds, loadSettings() returns
\* a record with every field of the defaults: exactly the defaults when the
\* key is absent or its text is not JSON, and otherwise the stored fields with
\* the defaults for the fields the stored record lacks; loadHistory() returns
\* the empty sequence when the key is absent or its text is not JSON or not an
\* array, and the stored array otherwise.
C15_LoadNeverFails ==
  LET st == localStorage.settings
      hs == localStorage.history
      L  == loadSettings(localStorage)
      H  == loadHistory(localStorage)
  IN /\ DOMAIN defaults \subseteq DOMAIN L
     /\ (st = Null \/ st[1].syntax = "invalid") => L = defaults
     /\ (st # Null /\ st[1].syntax = "object") =>
           /\ DOMAIN L = DOMAIN defaults \cup DOMAIN st[1].json
           /\ \A k \in DOMAIN st[1].json : L[k] = st[1].json[k]
           /\ \A k \in DOMAIN defaults \ DOMAIN st[1].json : L[k] = defaults[k]
     /\ (hs = Null \/ hs[1].syntax # "array") => H = <<>>
     /\ (hs # Null /\ hs[1].syntax = "array") => H = hs[1].json

\* the page was loaded from texts that are not JSON, and the timer runs on the
\* defaults with an empty log
C15_Witness ==
  /\ localStorage.settings # Null
  /\ localStorage.settings[1].syntax = "invalid"
  /\ localStorage.history # Null
  /\ localStorage.history[1].syntax = "invalid"
  /\ state.settings = defaults
  /\ state.history = <<>>
  /\ state.running
  /\ now > 0

\* C16: after every operation, loading the settings and the log from the
\* store gives the settings and the log the state holds: each change of either
\* is saved before the operation ends.
C16_StoreMatchesState ==
  /\ loadSettings(localStorage) = state.settings
  /\ loadHistory(localStorage) = state.history

\* a phase has completed under settings the dialog and the theme toggle
\* changed, and the store holds the settings and the log of the state
C16_Witness ==
  /\ state.history # <<>>
  /\ logged > 0
  /\ state.settings.theme = "light"
  /\ state.settings.focusMin = 10
  /\ state.settings.autoStart
  /\ localStorage.settings # Null
  /\ localStorage.settings[1].syntax = "object"
  /\ localStorage.settings[1].json = state.settings
  /\ localStorage.history # Null
  /\ localStorage.history[1].syntax = "array"
  /\ localStorage.history[1].json = state.history

\* the focus entries of day d in a log, and the sum of the durations of a set
\* of entries
FocusOn(h, d) == {i \in DOMAIN h : h[i].mode = "focus" /\ h[i].day = d}

RECURSIVE DurationOf(_, _)
DurationOf(h, S) ==
  IF S = {} THEN 0
  ELSE LET i == CHOOSE j \in S : TRUE
       IN h[i].duration + DurationOf(h, S \ {i})

\* C17: for today and for the days before, the session count of updateBottom
\* is the number of focus entries of that day, its total the sum of their
\* durations, and its last session the first of them in log order; breaks and
\* entries of other days count for nothing.
C17_DailyAggregate ==
  \A k \in 0..2 :
    LET t == now - k * Day
        h == state.history
        F == FocusOn(h, todayKey(t))
        a == updateBottom(state, t)
    IN /\ a.focusSessions = Cardinality(F)
       /\ a.focusSeconds = DurationOf(h, F)
       /\ a.lastFocus = IF F = {} THEN Null
                        ELSE Some(h[CHOOSE i \in F : \A j \in F : i <= j])

\* a focus phase completed today on top of a log of the two days before:
\* one session today, two of 35 minutes in all yesterday behind a break
C17_Witness ==
  /\ Len(state.history) = 6
  /\ Head(state.history).day = todayKey(now)
  /\ Head(state.history).mode = "focus"
  /\ state.history[2].mode = "short"
  /\ updateBottom(state, now) =
        [focusSessions |-> 1, focusSeconds |-> 600,
         lastFocus |-> Some(Head(state.history))]
  /\ updateBottom(state, now - Day) =
        [focusSessions |-> 2, focusSeconds |-> 2100,
         lastFocus |-> Some(state.history[3])]
  /\ updateBottom(state, now - 2 * Day).focusSessions = 1

\* C18: while the settings are left alone, every entry a completion appends
\* has the configured duration of its own mode: duration = minutes of
\* entry.mode * 60.
C18_DurationMatchesMode ==
  \A i \in DOMAIN state.history :
    state.history[i].duration
      = ConfiguredSec(state.settings, state.history[i].mode)

\* C19: whenever the machine is running, phaseStartISO is set, so the entry a
\* completion would log takes its startedAt from phaseStartISO and never from
\* the fallback now - totalSec.
C19_RunningHasPhaseStart ==
  state.running =>
    /\ state.phaseStartISO # Null
    /\ \A id \in Ids(now, logged + 1) :
         entryOf(state, now, id).startedAt = state.phaseStartISO

\* after a completion the timer was reset, which cleared phaseStartISO, and
\* started again, which stamped it anew
C19_Witness ==
  /\ state.running
  /\ state.history # <<>>
  /\ state.phaseStartISO # Null
  /\ state.phaseStartISO[1] > Head(state.history).endedAt[1]
  /\ state.phaseStartISO[1] # now - state.totalSec * 1000

\* the clock bound and the completion bound leave room for the phase that is
\* counting down to complete
Room ==
  /\ state.lastPerf # Null
  /\ state.lastPerf[1] + state.remainingSec * 1000 <= MaxSteps * Quantum
  /\ logged < MaxLiveCompletions

\* C20: once the machine is running and no user action intervenes, while the
\* interval keeps firing and time passes, the first tick starts the count and
\* the phase then completes: an entry of the phase's mode is appended, the
\* mode advances, and the machine is paused if autoStart is off and running
\* again, in the same situation, if autoStart is on.
C20_PhaseCompletes ==
  /\ (state.running /\ state.lastPerf = Null) ~> (state.lastPerf # Null)
  /\ (state.running /\ Room)
        ~> (JustCompleted /\ state.running = state.settings.autoStart)

\* with autoStart on, a second phase has completed without a click since the
\* machine was started
C20_Witness ==
  /\ state.settings.autoStart
  /\ logged = 2
  /\ state.history[1].startedAt = state.history[2].endedAt
  /\ state.running
  /\ state.phaseStartISO = Head(state.history).endedAt

====
